---- MODULE Spec2Model ----
(***************************************************************************)
(* Rule-based validation engine: Result model, rule registry built by the  *)
(* metaclass, Validator.accept / Validator.apply, the validate guard, the  *)
(* capability adapter, the ValidatorChainBuilder and the Observable.       *)
(*                                                                         *)
(* Check functions, wrapped operations, callbacks and predicates are user  *)
(* code: their behaviour on the payload of a call is an input of the call. *)
(***************************************************************************)
EXTENDS Integers, Sequences, FiniteSets, TLC

VARIABLES
    _rules,      \* ValidatorMeta: cls._rules of every validator type
    _validator,  \* Service._validator of every service instance
    pc,          \* "idle" before a call, "returned" once the call is over
    call,        \* the inputs of the call that is over
    acc,         \* what Validator.accept did inside that call
    ret,         \* value returned by the guard / apply (None when absent)
    raised,      \* exception propagated to the caller of the call
    invoked,     \* check invocations of the call, in order
    fnCalls,     \* invocations of the wrapped operation / callback, in order
    log,         \* records handed to the logger, in order
    adapted,     \* what adapt() returned in the call and the adapt methods it called
    _chain,      \* ValidatorChainBuilder._chain (nodes root first)
    chain,       \* ValidatorChain._parent of the chain built last
    chainArg,    \* argument of the chain evaluation that is over
    chainResult, \* Result it returned
    predCalls,   \* predicates it invoked, in order
    _observers,  \* Observable._observers: the observers attached to each event type
    history,     \* the attach and detach calls that returned, in order
    notified,    \* the event of the notify call that is over
    updates,     \* the update calls that notify call made, in order
    obsRaised,   \* exception the last Observable call raised
    _value,      \* TestObservable._value of every owner of the observable property
    _list,       \* ObservableList._list
    emitted,     \* events the last property / list operation handed to notify, in
                 \* order, each with the data stored at that moment
    lastOp,      \* that operation: its name, receiver and arguments
    opRet,       \* what that operation returned
    opRaised     \* exception that operation raised

vars == <<_rules, _validator, pc, call, acc, ret, raised, invoked, fnCalls,
          log, adapted, _chain, chain, chainArg, chainResult, predCalls,
          _observers, history, notified, updates, obsRaised,
          _value, _list, emitted, lastOp, opRet, opRaised>>

engineVars == <<pc, call, acc, ret, raised, invoked, fnCalls, log, adapted>>
chainVars == <<_chain, chain, chainArg, chainResult, predCalls>>
obsVars == <<_observers, history, notified, updates, obsRaised>>
dataVars == <<_value, _list, emitted, lastOp, opRet, opRaised>>

-----------------------------------------------------------------------------
(* Bounds *)

\* longest rule-name list given to accept / validate / apply
MaxSel == 2
\* longest chain of predicates
MaxChain == 3
\* most attach and detach calls made on the Observable
MaxOps == 4

-----------------------------------------------------------------------------
(* Result model *)

NoneV == "None"

\* ValidatorResult.Level values
OK == 1
WARNING == 2
ERROR == 4

Mode == {"AND", "OR"}

\* ValidatorResult.ok(**kwargs)
ok(kwargs) == [level |-> OK, message |-> NoneV, kwargs |-> kwargs]

\* ValidatorResult.warning(message, **kwargs)
warning(message, kwargs) == [level |-> WARNING, message |-> message, kwargs |-> kwargs]

\* ValidatorResult.error(message, **kwargs)
error(message, kwargs) == [level |-> ERROR, message |-> message, kwargs |-> kwargs]

\* mutant: a WARNING Result is falsy too
M_bool(result) == result.level < WARNING

\* ValidatorResult.__bool__
bool(result) == result.level < ERROR

NoResult == [level |-> 0, message |-> NoneV, kwargs |-> {}]

-----------------------------------------------------------------------------
(* Exceptions *)

NoExc == [type |-> "none", rule |-> NoneV, func |-> NoneV, cause |-> NoneV]

\* an exception raised by user code (a check, a wrapped operation, a callback)
UserExc(type) == [type |-> type, rule |-> NoneV, func |-> NoneV, cause |-> NoneV]

\* mutant: the raw error of the check is re-raised as it is
M_ValidatorError(rule, func, err) == UserExc(err)

\* raise ValidatorError(_rule, func) from err
ValidatorError(rule, func, err) ==
    [type |-> "ValidatorError", rule |-> rule, func |-> func, cause |-> err]

\* raise AdapterNotFoundError(adapter=Validator)
AdapterNotFoundError(adapter) ==
    [type |-> "AdapterNotFoundError", rule |-> NoneV, func |-> NoneV, cause |-> adapter]

-----------------------------------------------------------------------------
(* Validator types: class bodies and the registry the metaclass builds *)

\* One entry per callable of the class body, in declaration order:
\* its name, the rule names register() tagged it with, and whether its
\* signature takes arbitrary keyword arguments (**kwargs).
ClassBody ==
    [ValidatorA |->
        << [name |-> "validate", rules |-> <<>>, kw |-> TRUE],
           [name |-> "c1", rules |-> <<"r1", "r2">>, kw |-> TRUE],
           [name |-> "c2", rules |-> <<"r2">>, kw |-> TRUE],
           [name |-> "c3", rules |-> <<"r3">>, kw |-> TRUE] >>,
     ValidatorB |->
        << [name |-> "validate", rules |-> <<>>, kw |-> TRUE],
           [name |-> "d1", rules |-> <<"r2", "r1">>, kw |-> TRUE],
           [name |-> "d2", rules |-> <<"r1">>, kw |-> FALSE] >>,
     ValidatorC |->
        << [name |-> "e1", rules |-> <<"r3", "r1">>, kw |-> TRUE] >>]

ValidatorTypes == DOMAIN ClassBody

\* the classes each validator type is derived from: ValidatorC is derived
\* from ValidatorA, and from Service, which makes its instances Adapters
Bases ==
    [ValidatorA |-> {"Validator"},
     ValidatorB |-> {"Validator"},
     ValidatorC |-> {"ValidatorA", "Service"}]

\* mutant: the namespace also holds the callables the type inherits
M_namespace(t) ==
    IF "ValidatorA" \in Bases[t] THEN ClassBody["ValidatorA"] \o ClassBody[t]
    ELSE ClassBody[t]

\* the namespace dct the metaclass is given for type t: the callables of the
\* body of t itself, none of those it inherits
namespace(t) == ClassBody[t]

\* mutant: a callable already registered under a name is not registered again
M_AppendRule(reg, rule, value) ==
    IF \E i \in DOMAIN reg : \E j \in DOMAIN reg[i].funcs : reg[i].funcs[j] = value
    THEN reg
    ELSE IF \E i \in DOMAIN reg : reg[i].rule = rule
    THEN [i \in DOMAIN reg |->
            IF reg[i].rule = rule
            THEN [reg[i] EXCEPT !.funcs = Append(@, value)]
            ELSE reg[i]]
    ELSE Append(reg, [rule |-> rule, funcs |-> <<value>>])

\* rules[rule].append(value) on an insertion-ordered mapping
AppendRule(reg, rule, value) ==
    IF \E i \in DOMAIN reg : reg[i].rule = rule
    THEN [i \in DOMAIN reg |->
            IF reg[i].rule = rule
            THEN [reg[i] EXCEPT !.funcs = Append(@, value)]
            ELSE reg[i]]
    ELSE Append(reg, [rule |-> rule, funcs |-> <<value>>])

RECURSIVE TagLoop(_, _, _, _)
\* for rule in vars(value).pop("rules", []): rules[rule].append(value)
TagLoop(reg, value, tags, j) ==
    IF j > Len(tags) THEN reg
    ELSE TagLoop(AppendRule(reg, tags[j], value), value, tags, j + 1)

RECURSIVE BodyLoop(_, _, _)
\* for value in [v for v in dct.values() if callable(v)]
BodyLoop(reg, dct, i) ==
    IF i > Len(dct) THEN reg
    ELSE BodyLoop(TagLoop(reg, dct[i].name, dct[i].rules, 1), dct, i + 1)

\* ValidatorMeta.__init__: cls._rules
ValidatorMeta_init(dct) == BodyLoop(<<>>, dct, 1)

\* the callables of a type that carry at least one rule name
Checks(t) == {ClassBody[t][i].name : i \in {k \in DOMAIN ClassBody[t] : ClassBody[t][k].rules # <<>>}}

\* whether the signature of check f of type t takes **kwargs
TakesKw(t, f) == \E i \in DOMAIN ClassBody[t] : ClassBody[t][i].name = f /\ ClassBody[t][i].kw

-----------------------------------------------------------------------------
(* Objects and the capability adapter *)

Absent == "absent"

\* a validator of each type, a service owning a validator, a service built
\* without one, and an object that is neither a Validator nor an Adapter
Objects == {"v1", "v2", "v3", "v4", "svc", "svcNone", "plain"}

ClassOf(obj) ==
    CASE obj = "v1" -> "ValidatorA"
      [] obj = "v2" -> "ValidatorB"
      [] obj \in {"v3", "v4"} -> "ValidatorC"
      [] obj \in {"svc", "svcNone"} -> "UserService"
      [] obj = "obs" -> "TestObservable"
      [] obj = "olist" -> "ObservableList"
      [] OTHER -> "object"

\* isinstance(obj, adapter)
isinstance(obj, adapter) ==
    CASE adapter = "Validator" -> ClassOf(obj) \in ValidatorTypes
      [] adapter = "Adapter" ->
            \/ ClassOf(obj) = "UserService"
            \/ ClassOf(obj) \in ValidatorTypes /\ "Service" \in Bases[ClassOf(obj)]
      [] adapter = "Observable" -> ClassOf(obj) \in {"TestObservable", "ObservableList"}
      [] OTHER -> FALSE

\* the objects that own a validator (Service._validator)
Services == {o \in Objects : isinstance(o, "Adapter")}

\* Service.adapt
Service_adapt(obj, adapter) ==
    IF adapter = "Validator" THEN _validator[obj] ELSE NoneV

\* mutant: an Adapter is asked to adapt itself before it is tested, and the
\* answer is dropped when the object satisfies the capability
M_adaptSteps(obj, adapter) ==
    LET delegated == IF isinstance(obj, "Adapter") THEN <<obj>> ELSE <<>>
    IN IF isinstance(obj, adapter)
       THEN [value |-> obj, delegated |-> delegated]
       ELSE IF isinstance(obj, "Adapter")
       THEN [value |-> Service_adapt(obj, adapter), delegated |-> delegated]
       ELSE [value |-> NoneV, delegated |-> delegated]

\* the steps of adapt(obj, adapter): the value it returns and the objects
\* whose adapt method it calls on the way
adaptSteps(obj, adapter) ==
    IF isinstance(obj, adapter)
    THEN [value |-> obj, delegated |-> <<>>]
    ELSE IF isinstance(obj, "Adapter")
    THEN [value |-> Service_adapt(obj, adapter), delegated |-> <<obj>>]
    ELSE [value |-> NoneV, delegated |-> <<>>]

\* adapt(obj, adapter)
adapt(obj, adapter) == adaptSteps(obj, adapter).value

\* no call of adapt
NoAdapt == [value |-> NoneV, delegated |-> <<>>]

-----------------------------------------------------------------------------
(* Inputs of a call *)

RegisteredNames == {"r1", "r2", "r3"}
\* a rule name no validator type registers
UnknownNames == {"u1"}
RuleNames == RegisteredNames \cup UnknownNames

RECURSIVE SeqsUpTo(_, _)
SeqsUpTo(S, n) ==
    IF n = 0 THEN {<<>>}
    ELSE LET shorter == SeqsUpTo(S, n - 1)
         IN shorter \cup {Append(q, x) : q \in shorter, x \in S}

\* the rules argument: None, or a list of rule names
NoneSel == [none |-> TRUE, names |-> <<>>]
Selections ==
    {NoneSel} \cup {[none |-> FALSE, names |-> q] : q \in SeqsUpTo(RuleNames, MaxSel)}

\* positional payload of a call
Args == {"a1"}

\* what a check does when it is invoked on the payload of the call
Outcomes == {"None", "ok", "warning", "error", "raise"}

\* what a wrapped operation / callback does when it is invoked
FnOutcomes == {"value", "raise"}

\* the Result a check returns (None is handled by accept)
CheckResult(f, o) ==
    CASE o = "ok" -> ok({<<"by", f>>})
      [] o = "warning" -> warning(f, {})
      [] o = "error" -> error(f, {})
      [] OTHER -> NoResult

\* func(self, *args, **kwargs): binding a keyword the signature does not
\* take raises TypeError before the body runs
CallCheck(t, f, kwself, beh) ==
    IF kwself # Absent /\ ~TakesKw(t, f)
    THEN [raises |-> TRUE, exc |-> UserExc("TypeError"), result |-> NoResult, none |-> FALSE]
    ELSE IF beh[f] = "raise"
    THEN [raises |-> TRUE, exc |-> UserExc("UserError"), result |-> NoResult, none |-> FALSE]
    ELSE [raises |-> FALSE, exc |-> NoExc, result |-> CheckResult(f, beh[f]),
          none |-> beh[f] = "None"]

-----------------------------------------------------------------------------
(* Validator.accept *)

\* key in rules
InList(key, names) == \E i \in DOMAIN names : names[i] = key

\* mutant: a list holding a name the type does not register selects all rules
M_Select(reg, rules) ==
    IF rules.none \/ \E i \in DOMAIN rules.names :
                       \A k \in DOMAIN reg : reg[k].rule # rules.names[i]
    THEN reg
    ELSE SelectSeq(reg, LAMBDA e : InList(e.rule, rules.names))

RECURSIVE M_SelectListed(_, _)
\* mutant: the rules are taken in the order of the list, once per listing
M_SelectListed(reg, rules) ==
    IF rules.none THEN reg
    ELSE IF rules.names = <<>> THEN <<>>
    ELSE SelectSeq(reg, LAMBDA e : e.rule = Head(rules.names))
         \o M_SelectListed(reg, [rules EXCEPT !.names = Tail(@)])

\* selected = self.rules if rules is None else {key: value ... if key in rules}
Select(reg, rules) ==
    IF rules.none THEN reg
    ELSE SelectSeq(reg, LAMBDA e : InList(e.rule, rules.names))

RECURSIVE Flatten(_, _, _)
\* [(rule, func) for rule, functions in selected.items() for func in functions]
Flatten(selected, i, j) ==
    IF i > Len(selected) THEN <<>>
    ELSE IF j > Len(selected[i].funcs) THEN Flatten(selected, i + 1, 1)
    ELSE <<[rule |-> selected[i].rule, func |-> selected[i].funcs[j]]>>
         \o Flatten(selected, i, j + 1)

\* mutant: a check that returns None stands for a WARNING Result
M_Implicit(r, rule) == IF r.none THEN warning(rule, {<<"rule", rule>>}) ELSE r.result

\* if result is None: result = ValidatorResult.ok(rule=_rule)
Implicit(r, rule) == IF r.none THEN ok({<<"rule", rule>>}) ELSE r.result

\* if result.level >= ERROR: logger.error(result)
LogError(lg, result) ==
    IF result.level >= ERROR THEN Append(lg, [level |-> "error", result |-> result]) ELSE lg

\* mutant: only a Result above WARNING is handed to logger.warning
M_LogWarning(lg, result) ==
    IF result.level > WARNING THEN Append(lg, [level |-> "warning", result |-> result]) ELSE lg

\* if result.level > OK: logger.warning(result)
LogWarning(lg, result) ==
    IF result.level > OK THEN Append(lg, [level |-> "warning", result |-> result]) ELSE lg

\* mutant: the comparison with ERROR is strict
M_ReturnsOnError(result, mode) == result.level > ERROR /\ mode = "AND"

\* if result.level >= ERROR: ... if mode is Mode.AND: return result
ReturnsOnError(result, mode) == result.level >= ERROR /\ mode = "AND"

\* mutant: a WARNING Result is returned at once in AND mode too
M_ReturnsOnSuccess(result, mode) ==
    bool(result) /\ (mode = "OR" \/ result.level = WARNING)

\* if mode == mode.OR and result: return result
ReturnsOnSuccess(result, mode) == mode = "OR" /\ bool(result)

\* mutant: the loop that ends without a return gives a WARNING Result
M_LoopElse == warning(NoneV, {})

\* for ... else: return ok()
LoopElse == ok({})

\* what a call of the logger does: the package gives its logger a
\* StreamHandler, whose emit keeps its failures to itself ("ok"); a handler or
\* filter added to the logger can let an exception out of the call ("raise")
Sinks == {"ok", "raise"}

\* logger.error(result) / logger.warning(result) was called, lg to lg1, and raises
SinkError(env, lg, lg1) == env.sink = "raise" /\ lg1 # lg

RECURSIVE acceptLoop(_, _, _, _, _, _, _)
\* the body of accept: the for loop inside try / except / else
acceptLoop(pairs, i, mode, env, beh, inv, lg) ==
    IF i > Len(pairs)
    THEN [kind |-> "return", result |-> LoopElse, exc |-> NoExc,
          invoked |-> inv, log |-> lg]
    ELSE
      LET _rule == pairs[i].rule
          func == pairs[i].func
          inv1 == Append(inv, [rule |-> _rule, func |-> func, self |-> env.self,
                               args |-> env.args, kwself |-> env.kwself])
          r == CallCheck(ClassOf(env.self), func, env.kwself, beh)
      IN IF r.raises
         THEN [kind |-> "raise", result |-> NoResult,
               exc |-> ValidatorError(_rule, func, r.exc.type),
               invoked |-> inv1, log |-> lg]
         ELSE
           LET result == Implicit(r, _rule)
               lg1 == LogError(lg, result)
           IN IF SinkError(env, lg, lg1)
              THEN [kind |-> "raise", result |-> NoResult,
                    exc |-> ValidatorError(_rule, func, "SinkError"),
                    invoked |-> inv1, log |-> lg]
              ELSE IF ReturnsOnError(result, mode)
              THEN [kind |-> "return", result |-> result, exc |-> NoExc,
                    invoked |-> inv1, log |-> lg1]
              ELSE
                LET lg2 == LogWarning(lg1, result)
                IN IF SinkError(env, lg1, lg2)
                   THEN [kind |-> "raise", result |-> NoResult,
                         exc |-> ValidatorError(_rule, func, "SinkError"),
                         invoked |-> inv1, log |-> lg1]
                   ELSE IF ReturnsOnSuccess(result, mode)
                   THEN [kind |-> "return", result |-> result, exc |-> NoExc,
                         invoked |-> inv1, log |-> lg2]
                   ELSE acceptLoop(pairs, i + 1, mode, env, beh, inv1, lg2)

\* Validator.rules: self.__class__._rules
Validator_rules(self) == _rules[ClassOf(self)]

\* Validator.accept(self, rules, mode, *args, **kwargs) with a logger that
\* behaves as sink
acceptSink(self, rules, mode, args, kwself, beh, sink) ==
    acceptLoop(Flatten(Select(Validator_rules(self), rules), 1, 1), 1, mode,
               [self |-> self, args |-> args, kwself |-> kwself, sink |-> sink],
               beh, <<>>, <<>>)

\* Validator.accept(self, rules, mode, *args, **kwargs) with the logger of the
\* package
accept(self, rules, mode, args, kwself, beh) ==
    acceptSink(self, rules, mode, args, kwself, beh, "ok")

NoAcc == [kind |-> "none", result |-> NoResult, exc |-> NoExc, invoked |-> <<>>, log |-> <<>>]

-----------------------------------------------------------------------------
(* The validate guard and Validator.apply *)

\* mutant: only an OK Result lets the call through
M_Passes(result) == result.level = OK

\* if validator.accept(...): the Result decides through __bool__
Passes(result) == bool(result)

\* if not validator: raise AdapterNotFoundError(adapter=Validator)
NotFound(validator) == validator = NoneV

\* mutant: the wrapped operation runs inside the try block of the checks
M_CallFunction(fn) ==
    IF fn = "raise"
    THEN [raises |-> TRUE, exc |-> ValidatorError(NoneV, NoneV, "FnError"), value |-> NoneV]
    ELSE [raises |-> FALSE, exc |-> NoExc, value |-> "fnValue"]

\* function(obj, *args, **kwargs)
CallFunction(fn) ==
    IF fn = "raise"
    THEN [raises |-> TRUE, exc |-> UserExc("FnError"), value |-> NoneV]
    ELSE [raises |-> FALSE, exc |-> NoExc, value |-> "fnValue"]

\* mutant: the guard passes the payload on without the receiver
M_GuardKw(obj) == Absent

\* validator.accept(self.rules, self.mode, *args, _self=obj, **kwargs): the
\* keyword the guard adds to the payload of the checks
GuardKw(obj) == obj

\* mutant: without a validator there is nothing to check, the operation runs
M_Missing(fn, obj, args) ==
    [acc |-> NoAcc, ret |-> CallFunction(fn).value, raised |-> CallFunction(fn).exc,
     fnCalls |-> <<[obj |-> obj, args |-> args]>>]

\* validator = adapt(...); if not validator: raise AdapterNotFoundError
Missing(fn, obj, args) ==
    [acc |-> NoAcc, ret |-> NoneV, raised |-> AdapterNotFoundError("Validator"),
     fnCalls |-> <<>>]

\* mutant: the wrapped operation is invoked on the adapted validator
M_decorateur(rules, mode, fn, obj, args, beh) ==
    LET validator == adapt(obj, "Validator")
    IN IF NotFound(validator)
       THEN Missing(fn, obj, args)
       ELSE
         LET a == accept(validator, rules, mode, args, GuardKw(obj), beh)
         IN IF a.kind = "raise"
            THEN [acc |-> a, ret |-> NoneV, raised |-> a.exc, fnCalls |-> <<>>]
            ELSE IF Passes(a.result)
            THEN LET f == CallFunction(fn)
                 IN [acc |-> a, ret |-> f.value, raised |-> f.exc,
                     fnCalls |-> <<[obj |-> validator, args |-> args]>>]
            ELSE [acc |-> a, ret |-> NoneV, raised |-> NoExc, fnCalls |-> <<>>]

\* validate(rules, mode)(function)(obj, *args): the inner decorateur
decorateur(rules, mode, fn, obj, args, beh) ==
    LET validator == adapt(obj, "Validator")
    IN IF NotFound(validator)
       THEN Missing(fn, obj, args)
       ELSE
         LET a == accept(validator, rules, mode, args, GuardKw(obj), beh)
         IN IF a.kind = "raise"
            THEN [acc |-> a, ret |-> NoneV, raised |-> a.exc, fnCalls |-> <<>>]
            ELSE IF Passes(a.result)
            THEN LET f == CallFunction(fn)
                 IN [acc |-> a, ret |-> f.value, raised |-> f.exc,
                     fnCalls |-> <<[obj |-> obj, args |-> args]>>]
            ELSE [acc |-> a, ret |-> NoneV, raised |-> NoExc, fnCalls |-> <<>>]

\* Validator.apply(self, rules, callback, mode, *args)
apply(self, rules, callback, mode, args, beh) ==
    decorateur(rules, mode, callback, self, args, beh)

-----------------------------------------------------------------------------
(* Observable: values *)

\* class EventType(Enum)
EventType == {"get", "update", "delete", "add", "remove"}

\* the event types observers are attached to: those of the tests
AttachTypes == {"update", "get"}

\* the Observer instances
Observers == {"o1", "o2"}

\* Event(event_type, key, kwargs=...): kwargs as a set of (name, value) pairs
Event(event_type, key, kwargs) ==
    [event_type |-> event_type, key |-> key, kwargs |-> kwargs]

\* the objects that have the observable property `value`: a TestObservable
\* and an object that is neither an Observable nor an Adapter
Owners == {"obs", "plain"}

\* what an operation that returns nothing, or has not returned, returns
NoValue == -1

\* no property or list operation is over
NoOp == [name |-> "none", instance |-> NoneV, index |-> 0, arg |-> NoValue,
         before |-> NoValue]

\* no notify call is over
NoEvent == [event_type |-> NoneV, key |-> NoneV, kwargs |-> {}]

-----------------------------------------------------------------------------
(* State machine of the engine: one call at a time *)

Validators == {o \in Objects : isinstance(o, "Validator")}

\* check f of type t carries a rule name of the rules argument
Selectable(t, f, rules) ==
    \/ rules.none
    \/ \E k \in DOMAIN ClassBody[t] :
          /\ ClassBody[t][k].name = f
          /\ \E j \in DOMAIN ClassBody[t][k].rules : InList(ClassBody[t][k].rules[j], rules.names)

\* the behaviours of the checks the call can reach through obj; a check that
\* carries none of the names of the rules argument has one behaviour only
Behaviours(obj, rules) ==
    LET validator == adapt(obj, "Validator")
    IN IF validator = NoneV THEN {<<>>}
       ELSE {beh \in [Checks(ClassOf(validator)) -> Outcomes] :
                \A f \in Checks(ClassOf(validator)) :
                    ~Selectable(ClassOf(validator), f, rules) => beh[f] = "None"}

NoCall == [op |-> "none", obj |-> NoneV, rules |-> NoneSel, mode |-> "AND",
           args |-> NoneV, kwself |-> Absent, beh |-> <<>>, fn |-> NoneV,
           sink |-> "ok"]

Init ==
    /\ _rules = [t \in ValidatorTypes |-> ValidatorMeta_init(namespace(t))]
    /\ _validator = [s \in Services |->
                       CASE s = "svc" -> "v1" [] s = "v3" -> "v2" [] OTHER -> NoneV]
    /\ pc = "idle"
    /\ call = NoCall
    /\ acc = NoAcc
    /\ ret = NoneV
    /\ raised = NoExc
    /\ invoked = <<>>
    /\ fnCalls = <<>>
    /\ log = <<>>
    /\ adapted = NoAdapt
    /\ _chain = <<>>
    /\ chain = <<>>
    /\ chainArg = 0
    /\ chainResult = NoResult
    /\ predCalls = <<>>
    /\ _observers = [t \in EventType |-> <<>>]
    /\ history = <<>>
    /\ notified = NoEvent
    /\ updates = <<>>
    /\ obsRaised = "none"
    /\ _value = [instance \in Owners |-> 0]
    /\ _list = <<>>
    /\ emitted = <<>>
    /\ lastOp = NoOp
    /\ opRet = NoValue
    /\ opRaised = "none"

\* mutant: accept filters the registry of the type in place
M_Accept ==
    /\ pc = "idle"
    /\ \E self \in Validators, rules \in Selections, mode \in Mode, args \in Args :
         \E beh \in Behaviours(self, rules) :
           \E a \in {accept(self, rules, mode, args, Absent, beh)} :
              /\ call' = [op |-> "accept", obj |-> self, rules |-> rules, mode |-> mode,
                          args |-> args, kwself |-> Absent, beh |-> beh, fn |-> NoneV,
                          sink |-> "ok"]
              /\ acc' = a
              /\ ret' = NoneV
              /\ raised' = a.exc
              /\ invoked' = a.invoked
              /\ log' = a.log
              /\ fnCalls' = <<>>
              /\ adapted' = NoAdapt
              /\ _rules' = [_rules EXCEPT ![ClassOf(self)] = Select(@, rules)]
    /\ pc' = "returned"
    /\ UNCHANGED <<_validator, chainVars, obsVars, dataVars>>

\* a direct call validator.accept(rules, mode, *args)
Accept ==
    /\ pc = "idle"
    /\ \E self \in Validators, rules \in Selections, mode \in Mode, args \in Args :
         \E beh \in Behaviours(self, rules) :
           \E a \in {accept(self, rules, mode, args, Absent, beh)} :
              /\ call' = [op |-> "accept", obj |-> self, rules |-> rules, mode |-> mode,
                          args |-> args, kwself |-> Absent, beh |-> beh, fn |-> NoneV,
                          sink |-> "ok"]
              /\ acc' = a
              /\ ret' = NoneV
              /\ raised' = a.exc
              /\ invoked' = a.invoked
              /\ log' = a.log
              /\ fnCalls' = <<>>
              /\ adapted' = NoAdapt
    /\ pc' = "returned"
    /\ UNCHANGED <<_rules, _validator, chainVars, obsVars, dataVars>>

\* a call of an operation guarded by @validate(rules, mode) on a receiver
Guard ==
    /\ pc = "idle"
    /\ \E obj \in Objects, rules \in Selections, mode \in Mode, args \in Args,
          fn \in FnOutcomes :
         \E beh \in Behaviours(obj, rules) :
           \E d \in {decorateur(rules, mode, fn, obj, args, beh)} :
              /\ call' = [op |-> "guard", obj |-> obj, rules |-> rules, mode |-> mode,
                          args |-> args, kwself |-> GuardKw(obj), beh |-> beh, fn |-> fn,
                          sink |-> "ok"]
              /\ acc' = d.acc
              /\ ret' = d.ret
              /\ raised' = d.raised
              /\ invoked' = d.acc.invoked
              /\ log' = d.acc.log
              /\ fnCalls' = d.fnCalls
              /\ adapted' = adaptSteps(obj, "Validator")
    /\ pc' = "returned"
    /\ UNCHANGED <<_rules, _validator, chainVars, obsVars, dataVars>>

\* a call validator.apply(rules, callback, mode, *args)
Apply ==
    /\ pc = "idle"
    /\ \E self \in Validators, rules \in Selections, mode \in Mode, args \in Args,
          callback \in FnOutcomes :
         \E beh \in Behaviours(self, rules) :
           \E d \in {apply(self, rules, callback, mode, args, beh)} :
              /\ call' = [op |-> "apply", obj |-> self, rules |-> rules, mode |-> mode,
                          args |-> args, kwself |-> GuardKw(self), beh |-> beh,
                          fn |-> callback, sink |-> "ok"]
              /\ acc' = d.acc
              /\ ret' = d.ret
              /\ raised' = d.raised
              /\ invoked' = d.acc.invoked
              /\ log' = d.acc.log
              /\ fnCalls' = d.fnCalls
              /\ adapted' = adaptSteps(self, "Validator")
    /\ pc' = "returned"
    /\ UNCHANGED <<_rules, _validator, chainVars, obsVars, dataVars>>

\* the caller has the outcome; the next call starts from a clean record
Return ==
    /\ pc = "returned"
    /\ pc' = "idle"
    /\ call' = NoCall
    /\ acc' = NoAcc
    /\ ret' = NoneV
    /\ raised' = NoExc
    /\ invoked' = <<>>
    /\ fnCalls' = <<>>
    /\ log' = <<>>
    /\ adapted' = NoAdapt
    /\ UNCHANGED <<_rules, _validator, chainVars, obsVars, dataVars>>

Next == Accept \/ Guard \/ Apply \/ Return

Spec == Init /\ [][Next]_vars

\* a direct call validator.accept(rules, mode, *args) while a handler that
\* lets its exceptions out may be attached to the logger
AcceptSink ==
    /\ pc = "idle"
    /\ \E self \in Validators, rules \in Selections, mode \in Mode, args \in Args,
          sink \in Sinks :
         \E beh \in Behaviours(self, rules) :
           \E a \in {acceptSink(self, rules, mode, args, Absent, beh, sink)} :
              /\ call' = [op |-> "accept", obj |-> self, rules |-> rules, mode |-> mode,
                          args |-> args, kwself |-> Absent, beh |-> beh, fn |-> NoneV,
                          sink |-> sink]
              /\ acc' = a
              /\ ret' = NoneV
              /\ raised' = a.exc
              /\ invoked' = a.invoked
              /\ log' = a.log
              /\ fnCalls' = <<>>
              /\ adapted' = NoAdapt
    /\ pc' = "returned"
    /\ UNCHANGED <<_rules, _validator, chainVars, obsVars, dataVars>>

NextSink == AcceptSink \/ Return

SpecSink == Init /\ [][NextSink]_vars

-----------------------------------------------------------------------------
(* ValidatorChainBuilder and ValidatorChain *)

\* the predicates of the chain of the tests
Callbacks == {"isTruthy", "isPositive", "lessThanTen"}

\* callback(*args)
Holds(callback, data) ==
    CASE callback = "isTruthy" -> data # 0
      [] callback = "isPositive" -> data > 0
      [] callback = "lessThanTen" -> data < 10

\* message: str | None
Messages == {NoneV, "m1", "m2"}

ChainArgs == {-5, 0, 5, 15}

\* _InnerValidatorChain(parent, callback, message); the parent of the node
\* at position k of a chain is the node at position k - 1, None for k = 1
Node(callback, message) == [callback |-> callback, message |-> message]

\* self._message or ""
MessageOr(message) == IF message = NoneV THEN "" ELSE message

\* mutant: the node applies its predicate whatever its parent returned
M_ParentFailed(result) == FALSE

\* if not result: return result
ParentFailed(result) == ~bool(result)

\* ok() if self._callback(*args) else error(message=self._message or "")
OwnResult(node, data) ==
    IF Holds(node.callback, data) THEN ok({}) ELSE error(MessageOr(node.message), {})

RECURSIVE InnerCall(_, _, _)
\* _InnerValidatorChain.__call__ of the node at position k
InnerCall(nodes, k, data) ==
    LET p == IF k = 1 THEN [result |-> ok({}), calls |-> <<>>]
             ELSE InnerCall(nodes, k - 1, data)
    IN IF ParentFailed(p.result) THEN p
       ELSE [result |-> OwnResult(nodes[k], data), calls |-> Append(p.calls, k)]

\* ValidatorChain.__call__: return self._parent(*args)
ChainCall(parent, data) == InnerCall(parent, Len(parent), data)

\* ValidatorChainBuilder(callback, message)
Builder_init ==
    /\ _chain = <<>>
    /\ \E callback \in Callbacks, message \in Messages :
         _chain' = <<Node(callback, message)>>
    /\ UNCHANGED <<_rules, _validator, engineVars, obsVars, dataVars, chain, chainArg, chainResult, predCalls>>

\* mutant: the chain built last wraps the builder and sees the node it is given
M_Builder_call ==
    /\ _chain # <<>>
    /\ Len(_chain) < MaxChain
    /\ \E callback \in Callbacks, message \in Messages :
         /\ _chain' = Append(_chain, Node(callback, message))
         /\ chain' = IF chain = <<>> THEN chain ELSE _chain'
    /\ UNCHANGED <<_rules, _validator, engineVars, obsVars, dataVars, chainArg, chainResult, predCalls>>

\* builder(callback, message): self._chain = _InnerValidatorChain(self._chain, ...)
Builder_call ==
    /\ _chain # <<>>
    /\ Len(_chain) < MaxChain
    /\ \E callback \in Callbacks, message \in Messages :
         _chain' = Append(_chain, Node(callback, message))
    /\ UNCHANGED <<_rules, _validator, engineVars, obsVars, dataVars, chain, chainArg, chainResult, predCalls>>

\* builder.build(): ValidatorChain(self._chain), not evaluated yet
build ==
    /\ _chain # <<>>
    /\ chain' = _chain
    /\ chainArg' = 0
    /\ chainResult' = NoResult
    /\ predCalls' = <<>>
    /\ UNCHANGED <<_rules, _validator, engineVars, obsVars, dataVars, _chain>>

\* validator_chain(data) on the chain built last
Evaluate ==
    /\ chain # <<>>
    /\ \E data \in ChainArgs :
         \E c \in {ChainCall(chain, data)} :
           /\ chainArg' = data
           /\ chainResult' = c.result
           /\ predCalls' = c.calls
    /\ UNCHANGED <<_rules, _validator, engineVars, obsVars, dataVars, _chain, chain>>

NextChain == Builder_init \/ Builder_call \/ build \/ Evaluate

SpecChain == Init /\ [][NextChain]_vars

-----------------------------------------------------------------------------
(* Observable: attach, detach, notify *)

\* the first position of observer in list, 0 when it is not in it
IndexOf(list, observer) ==
    IF \E k \in DOMAIN list : list[k] = observer
    THEN CHOOSE k \in DOMAIN list :
            list[k] = observer /\ \A j \in 1..(k - 1) : list[j] # observer
    ELSE 0

\* list without the element at position k
RemoveAt(list, k) == SubSeq(list, 1, k - 1) \o SubSeq(list, k + 1, Len(list))

\* mutant: remove takes every occurrence of the observer out of the list
M_ListRemove(list, observer) == SelectSeq(list, LAMBDA o : o # observer)

\* list.remove(observer): the first occurrence goes
ListRemove(list, observer) == RemoveAt(list, IndexOf(list, observer))

\* observable.attach(event_type, observer)
attach ==
    /\ Len(history) < MaxOps
    /\ \E event_type \in AttachTypes, observer \in Observers :
         /\ _observers' = [_observers EXCEPT ![event_type] = Append(@, observer)]
         /\ history' = Append(history, [op |-> "attach", event_type |-> event_type,
                                        observer |-> observer])
    /\ notified' = NoEvent
    /\ updates' = <<>>
    /\ obsRaised' = "none"
    /\ UNCHANGED <<_rules, _validator, engineVars, chainVars, dataVars>>

\* observable.detach(event_type, observer): list.remove raises ValueError
\* when the observer is not in the list of the event type
detach ==
    /\ Len(history) < MaxOps
    /\ \E event_type \in AttachTypes, observer \in Observers :
         IF IndexOf(_observers[event_type], observer) = 0
         THEN /\ obsRaised' = "ValueError"
              /\ UNCHANGED <<_observers, history>>
         ELSE /\ _observers' = [_observers EXCEPT
                                  ![event_type] = ListRemove(@, observer)]
              /\ history' = Append(history, [op |-> "detach", event_type |-> event_type,
                                             observer |-> observer])
              /\ obsRaised' = "none"
    /\ notified' = NoEvent
    /\ updates' = <<>>
    /\ UNCHANGED <<_rules, _validator, engineVars, chainVars, dataVars>>

\* observable.notify(event): for observer in self._observers[event.event_type]:
\* observer.update(self, event)
notify ==
    /\ \E event_type \in EventType :
         \E event \in {Event(event_type, "value", {})} :
           /\ notified' = event
           /\ updates' = [k \in DOMAIN _observers[event_type] |->
                            [observer |-> _observers[event_type][k], event |-> event]]
    /\ obsRaised' = "none"
    /\ UNCHANGED <<_rules, _validator, engineVars, chainVars, dataVars, _observers, history>>

NextObservable == attach \/ detach \/ notify

SpecObservable == Init /\ [][NextObservable]_vars

-----------------------------------------------------------------------------
(* Vocabulary of the properties: the call that is over, seen from outside *)

Returned == pc = "returned"

\* accept ran in the call that is over
Evaluated == Returned /\ acc.kind # "none"

\* the validator whose rules the call evaluated
TheValidator ==
    IF isinstance(call.obj, "Validator") THEN call.obj ELSE _validator[call.obj]

\* the (rule, check) pairs the call selected, in registry order
Pairs == Flatten(Select(_rules[ClassOf(TheValidator)], call.rules), 1, 1)

\* what the check of pair i does on the payload of the call
Out(P, i) == CallCheck(ClassOf(TheValidator), P[i].func, call.kwself, call.beh)

\* the Result pair i stands for (an implicit ok when the check returns None)
Res(P, i) == Implicit(Out(P, i), P[i].rule)

NoRaise(P) == \A i \in DOMAIN P : ~Out(P, i).raises

Erroring(P) == {i \in DOMAIN P : ~Out(P, i).raises /\ Res(P, i).level >= ERROR}
Truthy(P) == {i \in DOMAIN P : ~Out(P, i).raises /\ Res(P, i).level < ERROR}

Least(S) == CHOOSE m \in S : \A k \in S : m <= k

\* the checks invoked are exactly those of pairs 1..n, in that order
InvokedUpTo(P, n) ==
    /\ Len(invoked) = n
    /\ \A k \in 1..n : invoked[k].rule = P[k].rule /\ invoked[k].func = P[k].func

-----------------------------------------------------------------------------
(* C1 *)

\* C1: in AND mode, when no selected check raises, accept returns the Result
\* of the first check in registry order whose level is ERROR and invokes no
\* check after it; when no selected check returns ERROR it invokes them all
\* and returns an OK Result.
C1_AndFirstError ==
    (Evaluated /\ call.mode = "AND") =>
        \A P \in {Pairs} :
            NoRaise(P) =>
                /\ acc.kind = "return"
                /\ IF Erroring(P) = {}
                   THEN acc.result.level = OK /\ InvokedUpTo(P, Len(P))
                   ELSE /\ acc.result = Res(P, Least(Erroring(P)))
                        /\ InvokedUpTo(P, Least(Erroring(P)))

\* two different checks fail, a check passes before the first of them and a
\* check is left uninvoked after it
C1_Witness ==
    /\ Evaluated /\ call.mode = "AND"
    /\ acc.result.level = ERROR
    /\ \E P \in {Pairs} :
          /\ NoRaise(P)
          /\ \E i, j \in Erroring(P) :
                i < j /\ Res(P, i) # Res(P, j) /\ Least(Erroring(P)) = i /\ i > 1
          /\ Len(invoked) < Len(P)

-----------------------------------------------------------------------------
(* C2 *)

\* C2: in OR mode, when no selected check raises, accept returns the first
\* truthy Result in registry order, and when no selected check produces a
\* truthy Result it returns the last (ERROR-level) Result that was evaluated.
C2_OrFirstTruthyElseLast ==
    (Evaluated /\ call.mode = "OR") =>
        \A P \in {Pairs} :
            (NoRaise(P) /\ P # <<>>) =>
                /\ acc.kind = "return"
                /\ IF Truthy(P) # {}
                   THEN /\ acc.result = Res(P, Least(Truthy(P)))
                        /\ InvokedUpTo(P, Least(Truthy(P)))
                   ELSE /\ acc.result = Res(P, Len(P))
                        /\ InvokedUpTo(P, Len(P))

-----------------------------------------------------------------------------
(* C3 *)

\* C3: for a guarded call on a receiver that adapts to a Validator, with no
\* check raising: if accept's Result is truthy the wrapped operation is
\* invoked exactly once, on the receiver with the original arguments, and the
\* guard returns its result; if accept's Result is ERROR the wrapped
\* operation is never invoked and the guard returns None.
C3_GuardGates ==
    (Evaluated /\ call.op = "guard" /\ NoRaise(Pairs)) =>
        /\ acc.kind = "return"
        /\ acc.result.level \in {OK, WARNING} =>
             /\ fnCalls = <<[obj |-> call.obj, args |-> call.args]>>
             /\ call.fn = "value" => (ret = "fnValue" /\ raised = NoExc)
        /\ acc.result.level = ERROR =>
             /\ fnCalls = <<>>
             /\ ret = NoneV
             /\ raised = NoExc

\* a service whose validator rejects the call after a passing check
C3_Witness ==
    /\ Evaluated /\ call.op = "guard"
    /\ call.obj = "svc"
    /\ acc.result.level = ERROR
    /\ Len(invoked) > 1
    /\ fnCalls = <<>>
    /\ NoRaise(Pairs)

-----------------------------------------------------------------------------
(* C4 *)

\* C4: for a guard or apply in OR mode whose selection contains at least one
\* registered rule, if every selected check returns an ERROR Result the
\* wrapped operation (callback) is not invoked and None is returned.
C4_OrAllErrorsBlock ==
    (Evaluated /\ call.op \in {"guard", "apply"} /\ call.mode = "OR") =>
        \A P \in {Pairs} :
            (P # <<>> /\ \A i \in DOMAIN P : i \in Erroring(P)) =>
                /\ fnCalls = <<>>
                /\ ret = NoneV
                /\ raised = NoExc

-----------------------------------------------------------------------------
(* C5 *)

\* pair i ends the evaluation: its check raises, or its Result short-circuits
Stops(P, i) ==
    \/ Out(P, i).raises
    \/ call.mode = "AND" /\ Res(P, i).level >= ERROR
    \/ call.mode = "OR" /\ Res(P, i).level < ERROR

\* C5: when a selected check raises and no earlier pair ended the
\* evaluation, accept raises ValidatorError carrying the rule name and the
\* function of exactly that check, returns no Result and invokes no later
\* check; the caller receives the ValidatorError, not the raw error, and the
\* gated operation does not run.
C5_RaiseWrapped ==
    Evaluated =>
        \A P \in {Pairs} : \A i \in DOMAIN P :
            (Out(P, i).raises /\ \A k \in 1..(i - 1) : ~Stops(P, k)) =>
                /\ acc.kind = "raise"
                /\ acc.result = NoResult
                /\ raised.type = "ValidatorError"
                /\ raised.rule = P[i].rule
                /\ raised.func = P[i].func
                /\ raised.cause = Out(P, i).exc.type
                /\ InvokedUpTo(P, i)
                /\ fnCalls = <<>>

\* a check raises after another check ran, with a check left behind it
C5_Witness ==
    /\ Evaluated
    /\ raised.type = "ValidatorError"
    /\ raised.cause = "UserError"
    /\ Len(invoked) = 2
    /\ Len(Pairs) > 2

-----------------------------------------------------------------------------
(* C6 *)

RegisteredOf(t) == {_rules[t][i].rule : i \in DOMAIN _rules[t]}

\* the names of the list that the type of the validator registers
Known ==
    LET reg == RegisteredOf(ClassOf(TheValidator))
    IN SelectSeq(call.rules.names, LAMBDA n : n \in reg)

\* C6: unknown names contribute nothing and never raise: a call whose list
\* mixes registered and unregistered names invokes the same checks and has
\* the same outcome as the call on the registered names alone, only checks of
\* listed registered names run, and a list of unknown names alone invokes no
\* check and returns OK in both modes.
C6_UnknownIgnored ==
    (Evaluated /\ ~call.rules.none) =>
        /\ acc = accept(TheValidator, [none |-> FALSE, names |-> Known],
                        call.mode, call.args, call.kwself, call.beh)
        /\ \A k \in DOMAIN invoked :
              /\ InList(invoked[k].rule, call.rules.names)
              /\ invoked[k].rule \in RegisteredOf(ClassOf(TheValidator))
        /\ Known = <<>> =>
              /\ acc.kind = "return"
              /\ acc.result.level = OK
              /\ invoked = <<>>
              /\ raised.type \notin {"ValidatorError", "AdapterNotFoundError"}

\* a list mixing a registered and an unknown name, whose check ran
C6_Witness ==
    /\ Evaluated /\ ~call.rules.none
    /\ \E i \in DOMAIN call.rules.names : call.rules.names[i] \in UnknownNames
    /\ Known # <<>>
    /\ invoked # <<>>

\* a list of unknown names alone, in OR mode
C6_WitnessOnlyUnknown ==
    /\ Evaluated /\ ~call.rules.none
    /\ call.rules.names # <<>> /\ Known = <<>>
    /\ call.mode = "OR"
    /\ acc.result.level = OK

-----------------------------------------------------------------------------
(* C7 *)

\* the receiver is no Validator and either no Adapter or one without validator
NotAdaptable(obj) ==
    /\ ClassOf(obj) \notin ValidatorTypes
    /\ obj \in Services => _validator[obj] = NoneV

\* C7: a guarded call on a receiver that is neither a Validator nor
\* adaptable to one raises AdapterNotFound; no check function and no wrapped
\* operation is invoked.
C7_AdapterNotFound ==
    (Returned /\ call.op = "guard" /\ NotAdaptable(call.obj)) =>
        /\ raised.type = "AdapterNotFoundError"
        /\ invoked = <<>>
        /\ fnCalls = <<>>
        /\ acc.kind = "none"
        /\ ret = NoneV

\* the receiver is an Adapter whose adapt() returns None
C7_Witness ==
    /\ Returned /\ call.op = "guard"
    /\ call.obj = "svcNone"
    /\ call.fn = "value"
    /\ raised.type = "AdapterNotFoundError"

-----------------------------------------------------------------------------
(* C8 *)

\* C8: an exception raised by the wrapped operation (or by the callback of
\* apply) after validation passed reaches the caller unchanged: it is not
\* wrapped into ValidatorError or AdapterNotFound, nor replaced by a return.
C8_OwnExceptionPropagates ==
    (/\ Returned /\ call.op \in {"guard", "apply"}
     /\ acc.kind = "return" /\ acc.result.level < ERROR
     /\ call.fn = "raise") =>
        /\ raised = UserExc("FnError")
        /\ Len(fnCalls) = 1

\* the callback of apply raises after the checks passed
C8_Witness ==
    /\ Returned /\ call.op = "apply"
    /\ acc.kind = "return" /\ acc.result.level < ERROR
    /\ invoked # <<>>
    /\ call.fn = "raise"
    /\ raised.type = "FnError"

-----------------------------------------------------------------------------
(* C9 *)

\* the outcome of apply when its evaluation step did what a did
GatedBy(a) ==
    /\ acc.kind = a.kind /\ acc.result = a.result /\ acc.exc = a.exc
    /\ Len(invoked) = Len(a.invoked)
    /\ \A k \in DOMAIN invoked :
          /\ invoked[k].rule = a.invoked[k].rule
          /\ invoked[k].func = a.invoked[k].func
          /\ invoked[k].self = a.invoked[k].self
          /\ invoked[k].args = a.invoked[k].args
    /\ a.kind = "raise" => (raised = a.exc /\ fnCalls = <<>>)
    /\ (a.kind = "return" /\ a.result.level < ERROR) =>
          /\ fnCalls = <<[obj |-> call.obj, args |-> call.args]>>
          /\ call.fn = "value" => (ret = "fnValue" /\ raised = NoExc)
    /\ (a.kind = "return" /\ a.result.level >= ERROR) =>
          /\ fnCalls = <<>> /\ ret = NoneV /\ raised = NoExc

\* C9 as stated: apply evaluates exactly as accept does on the same
\* selection, mode and payload, invokes the callback once and returns its
\* result if the combined Result is truthy, and otherwise returns None
\* without invoking the callback.
C9_ApplyAsAcceptSamePayload ==
    (Returned /\ call.op = "apply") =>
        GatedBy(accept(call.obj, call.rules, call.mode, call.args, Absent, call.beh))

\* C9 amended: apply evaluates as accept does on the same selection and mode
\* and on the payload extended with the keyword argument _self = validator;
\* if the combined Result is truthy it invokes callback(validator, payload)
\* once and returns its result, otherwise it returns None without invoking
\* the callback.
C9_ApplyAsAcceptWithSelf ==
    (Returned /\ call.op = "apply") =>
        /\ GatedBy(accept(call.obj, call.rules, call.mode, call.args, call.obj, call.beh))
        /\ \A k \in DOMAIN invoked : invoked[k].kwself = call.obj

\* apply ran two checks, the second with a WARNING, and then the callback
C9_Witness ==
    /\ Returned /\ call.op = "apply"
    /\ Len(invoked) = 2
    /\ acc.result.level = WARNING
    /\ fnCalls = <<[obj |-> call.obj, args |-> call.args]>>
    /\ ret = "fnValue"

-----------------------------------------------------------------------------
(* C10 *)

\* the chain built last has been evaluated
ChainEvaluated == chainResult.level # 0

\* the nodes of the built chain whose predicate does not hold of the argument
Failing == {k \in DOMAIN chain : ~Holds(chain[k].callback, chainArg)}

\* C10: evaluating a built chain returns OK if all its predicates hold of the
\* argument, and otherwise an ERROR Result carrying the message of the first
\* predicate, in append order, that does not hold (the empty string when that
\* predicate was given no message).
C10_ChainFirstFailure ==
    ChainEvaluated =>
        IF Failing = {}
        THEN chainResult.level = OK
        ELSE /\ chainResult.level = ERROR
             /\ LET m == chain[Least(Failing)].message
                IN chainResult.message = (IF m = NoneV THEN "" ELSE m)

\* two predicates with different messages fail, the first after a passing one
C10_Witness ==
    /\ ChainEvaluated
    /\ \E i, j \in Failing :
          /\ i < j /\ Least(Failing) = i /\ i > 1
          /\ chain[i].message # NoneV /\ chain[j].message # NoneV
          /\ chain[i].message # chain[j].message
          /\ chainResult.message = chain[i].message

-----------------------------------------------------------------------------
(* C11 *)

\* the positions 1 .. n in increasing order
UpTo(n) == [k \in 1..n |-> k]

\* the node whose Result the built chain returns for the argument: the first
\* one whose predicate does not hold, the final node when all hold
Deciding == IF Failing = {} THEN Len(chain) ELSE Least(Failing)

\* C11: evaluating a built chain invokes the predicates in append order, root
\* first, up to and including the first node that fails and none after it;
\* the Result of that failing node is what the chain returns, unchanged by the
\* later nodes; the chain returns a truthy Result only when every predicate
\* was invoked and the final node passed.
C11_ChainShortCircuit ==
    ChainEvaluated =>
        /\ predCalls = UpTo(Deciding)
        /\ chainResult = OwnResult(chain[Deciding], chainArg)
        /\ bool(chainResult) =>
             /\ predCalls = UpTo(Len(chain))
             /\ Holds(chain[Len(chain)].callback, chainArg)

\* a chain of three nodes whose second node fails: the third predicate would
\* fail too, with another message, and is not invoked
C11_Witness ==
    /\ ChainEvaluated
    /\ Len(chain) = 3
    /\ Failing = {2, 3}
    /\ chain[2].message # chain[3].message
    /\ predCalls = <<1, 2>>
    /\ ~bool(chainResult)

-----------------------------------------------------------------------------
(* C12 *)

\* C12 (as stated): calling a builder with a further (predicate, message)
\* pair does not mutate the builder it is called on, so that a chain built
\* from that builder after the call has only the predicates the builder had
\* before the call.
C12_BuilderNotMutated == [][_chain # <<>> => _chain' = _chain]_vars

\* C12 (amended): calling a builder with a further pair stores in that same
\* builder a chain with one more node, whose predecessors are the nodes it
\* had, unchanged; the call changes no chain built before it, and a chain is
\* built with the nodes the builder has at the time of build().
C12_BuiltChainFrozen ==
    [][ /\ (_chain # <<>> /\ _chain' # _chain) =>
              /\ \E callback \in Callbacks, message \in Messages :
                    _chain' = Append(_chain, Node(callback, message))
              /\ chain' = chain
        /\ chain' # chain => (chain' = _chain /\ _chain' = _chain) ]_vars

\* a chain was built, the builder was given a further pair afterwards, and
\* the built chain, evaluated, invokes the predicates it was built with only
C12_Witness ==
    /\ chain # <<>>
    /\ Len(_chain) > Len(chain)
    /\ ChainEvaluated
    /\ predCalls = UpTo(Len(chain))

-----------------------------------------------------------------------------
(* C13 *)

\* the (rule name, check) entries of the registry of type t
Entries(t) ==
    UNION {{<<_rules[t][i].rule, _rules[t][i].funcs[j]>> :
               j \in DOMAIN _rules[t][i].funcs} : i \in DOMAIN _rules[t]}

\* the (rule name, check) pairs tagged on the callables of the body of type t
Declared(t) ==
    UNION {{<<ClassBody[t][i].rules[j], ClassBody[t][i].name>> :
               j \in DOMAIN ClassBody[t][i].rules} : i \in DOMAIN ClassBody[t]}

\* C13: the registry of a validator type holds exactly the (rule name, check)
\* entries tagged on the checks declared in the body of that type, and no
\* entry declared in the body of another type, be it the type it is derived
\* from or a type derived from it.
C13_RegistryOwnBody ==
    \A E \in {[t \in ValidatorTypes |-> Entries(t)]},
       D \in {[t \in ValidatorTypes |-> Declared(t)]} :
       /\ \A t \in ValidatorTypes : E[t] = D[t]
       /\ \A t, u \in ValidatorTypes : t # u => E[t] \cap D[u] = {}

\* accept on an instance of the derived type with every rule selected has
\* invoked the check of the derived type for each of its names, and none of
\* the checks of the type it is derived from, which register the same names
C13_Witness ==
    /\ Returned
    /\ call.op = "accept" /\ call.obj = "v3" /\ call.rules = NoneSel
    /\ "ValidatorA" \in Bases[ClassOf(call.obj)]
    /\ Len(invoked) = 2
    /\ \A k \in DOMAIN invoked : invoked[k].func = "e1"
    /\ \E e \in Entries("ValidatorA") : e[1] = "r1" /\ e[2] = "c1"

-----------------------------------------------------------------------------
(* C14 *)

\* the registries as the metaclass built them when the types were defined
AtDefinition == [t \in ValidatorTypes |-> ValidatorMeta_init(namespace(t))]

\* C14: whatever accept, apply and guard calls were made on instances of a
\* validator type, and whatever they returned or raised, the registry of
\* every type is the one built when the type was defined; two instances of
\* one type read the same registry, and the checks a call invoked are entries
\* of that registry.
C14_RegistryFrozen ==
    /\ _rules = AtDefinition
    /\ \A o1, o2 \in Validators :
          ClassOf(o1) = ClassOf(o2) => Validator_rules(o1) = Validator_rules(o2)
    /\ \A k \in DOMAIN invoked :
          <<invoked[k].rule, invoked[k].func>> \in Declared(ClassOf(invoked[k].self))

\* a call on a validator ended with ValidatorError after it had selected a
\* part of the registry and invoked a check
C14_Witness ==
    /\ Returned
    /\ raised.type = "ValidatorError"
    /\ ~call.rules.none
    /\ invoked # <<>>
    /\ \E e \in Entries(ClassOf(TheValidator)) : ~InList(e[1], call.rules.names)

\* calls on two instances of one type
C14_WitnessInstances ==
    /\ Returned
    /\ call.obj = "v4"
    /\ ClassOf("v3") = ClassOf("v4")
    /\ invoked # <<>>

-----------------------------------------------------------------------------
(* C15 *)

\* the rule names tagged on check f in the body of type t
TagsOf(t, f) ==
    UNION {{ClassBody[t][i].rules[j] : j \in DOMAIN ClassBody[t][i].rules} :
              i \in {k \in DOMAIN ClassBody[t] : ClassBody[t][k].name = f}}

\* the rule names the call selects: every name when rules is None
SelectedNames ==
    IF call.rules.none THEN RuleNames
    ELSE {call.rules.names[i] : i \in DOMAIN call.rules.names}

\* how many times the call invoked check f
TimesInvoked(f) == Cardinality({k \in DOMAIN invoked : invoked[k].func = f})

\* C15: a check tagged with several rule names is invoked once for each
\* selected rule name it is tagged with: when k of the selected names map to
\* it, and no pair before the last of its pairs raised or short-circuited,
\* one accept call invokes it k times.
C15_OncePerSelectedName ==
    Evaluated =>
        \A P \in {Pairs} : \A f \in Checks(ClassOf(TheValidator)) :
            (\A i, j \in DOMAIN P : (i < j /\ P[j].func = f) => ~Stops(P, i)) =>
                TimesInvoked(f) = Cardinality(SelectedNames \cap TagsOf(ClassOf(TheValidator), f))

\* a check tagged with two names, both selected by name, is invoked twice in
\* a call that also invokes another check
C15_Witness ==
    /\ Evaluated
    /\ ~call.rules.none
    /\ \E f \in Checks(ClassOf(TheValidator)) :
          /\ Cardinality(SelectedNames \cap TagsOf(ClassOf(TheValidator), f)) = 2
          /\ TimesInvoked(f) = 2
          /\ \E k \in DOMAIN invoked : invoked[k].func # f

-----------------------------------------------------------------------------
(* C16 *)

\* the Results the call has in hand once it is over: the one accept
\* returned and those it reported
Produced ==
    (IF acc.kind = "return" THEN {acc.result} ELSE {})
        \cup {log[k].result : k \in DOMAIN log}

\* C16: the levels are totally ordered OK < WARNING < ERROR, and every Result
\* built by ok(), warning() or error() is truthy exactly when its level is OK
\* or WARNING and falsy exactly when its level is ERROR.
C16_TruthyBelowError ==
    /\ OK < WARNING /\ WARNING < ERROR
    /\ \A r \in Produced \cup {ok({}), warning("m1", {}), error("m1", {})} :
          /\ r.level \in {OK, WARNING, ERROR}
          /\ bool(r) <=> r.level \in {OK, WARNING}
          /\ ~bool(r) <=> r.level = ERROR

\* an AND call reported a WARNING Result, truthy, which did not end it, and
\* returned the ERROR Result, falsy, that did
C16_Witness ==
    /\ Evaluated /\ call.mode = "AND"
    /\ acc.kind = "return" /\ acc.result.level = ERROR /\ ~bool(acc.result)
    /\ \E i, j \in DOMAIN log :
          /\ i < j
          /\ log[i].result.level = WARNING /\ bool(log[i].result)
          /\ log[j].result = acc.result

-----------------------------------------------------------------------------
(* C17 *)

Capabilities == {"Validator", "Adapter", "Observable"}

\* obj is an instance of the capability
Satisfies(obj, capability) ==
    \/ capability = "Validator" /\ ClassOf(obj) \in ValidatorTypes
    \/ capability = "Adapter" /\ obj \in DOMAIN _validator

\* what the adapt method of an adaptable object returns
OwnAdapt(obj, capability) ==
    IF capability = "Validator" THEN _validator[obj] ELSE NoneV

\* what C17 says of adapt(obj, capability)
Adapted(obj, capability) ==
    IF Satisfies(obj, capability)
    THEN [value |-> obj, delegated |-> <<>>]
    ELSE IF obj \in DOMAIN _validator
    THEN [value |-> OwnAdapt(obj, capability), delegated |-> <<obj>>]
    ELSE [value |-> NoneV, delegated |-> <<>>]

\* C17: adapt(object, capability) returns the object itself when the object
\* satisfies the capability, and then does not call the adapt method of the
\* object even if it has one; otherwise, if the object is adaptable, it calls
\* that method once and returns what it returns, absent included; otherwise
\* it returns absent.
C17_AdaptSelfFirst ==
    (Returned /\ call.op \in {"guard", "apply"}) =>
        /\ adapted = Adapted(call.obj, "Validator")
        /\ \A capability \in Capabilities :
              adaptSteps(call.obj, capability) = Adapted(call.obj, capability)

\* a guarded call on a validator that is adaptable too, and whose adapt
\* method would return another validator: its own checks were evaluated
C17_Witness ==
    /\ Returned /\ call.op = "guard"
    /\ Satisfies(call.obj, "Validator") /\ Satisfies(call.obj, "Adapter")
    /\ OwnAdapt(call.obj, "Validator") \notin {NoneV, call.obj}
    /\ adapted.value = call.obj /\ adapted.delegated = <<>>
    /\ invoked # <<>>
    /\ \A k \in DOMAIN invoked : invoked[k].self = call.obj

\* a guarded call on a service: its adapt method was called and returned the
\* validator it owns
C17_WitnessDelegated ==
    /\ Returned /\ call.op = "guard"
    /\ ~Satisfies(call.obj, "Validator")
    /\ adapted.delegated = <<call.obj>> /\ adapted.value # NoneV
    /\ invoked # <<>>

-----------------------------------------------------------------------------
(* C18 *)

\* C18: in both modes, every Result of level WARNING or ERROR returned by a
\* check that accept invoked has been handed to the logger at least once
\* when the call is over, whether it ended the evaluation or not; nothing
\* else is handed to the logger, and an OK Result, returned by a check or
\* synthesized, never is.
C18_WarningsAndErrorsReported ==
    Evaluated =>
        \A P \in {Pairs} :
            /\ \A k \in DOMAIN invoked :
                  (~Out(P, k).raises /\ Res(P, k).level \in {WARNING, ERROR}) =>
                      \E j \in DOMAIN log : log[j].result = Res(P, k)
            /\ \A j \in DOMAIN log :
                  /\ log[j].result.level \in {WARNING, ERROR}
                  /\ \E k \in DOMAIN invoked :
                        ~Out(P, k).raises /\ log[j].result = Res(P, k)

\* an AND call reported a WARNING Result, which did not end it, went through
\* an OK Result, which it did not report, and reported the ERROR Result that
\* ended it
C18_Witness ==
    /\ Evaluated /\ call.mode = "AND"
    /\ acc.kind = "return" /\ acc.result.level = ERROR
    /\ \E P \in {Pairs} : \E i, j, k \in DOMAIN invoked :
          /\ i < j /\ j < k /\ k = Len(invoked)
          /\ Res(P, i).level = WARNING /\ Res(P, j).level = OK /\ Res(P, k).level = ERROR
          /\ \E a, b \in DOMAIN log : log[a].result = Res(P, i) /\ log[b].result = Res(P, k)
          /\ \A a \in DOMAIN log : log[a].result # Res(P, j)

\* an OR call reported the ERROR Result that did not end it and the WARNING
\* Result that did
C18_WitnessOr ==
    /\ Evaluated /\ call.mode = "OR"
    /\ acc.kind = "return" /\ acc.result.level = WARNING
    /\ \E a, b \in DOMAIN log :
          log[a].result.level = ERROR /\ log[b].result = acc.result

-----------------------------------------------------------------------------
(* C19 *)

\* what the accept call that is over would have done had every call of the
\* logger succeeded
WithSoundSink ==
    acceptSink(call.obj, call.rules, call.mode, call.args, call.kwself, call.beh, "ok")

\* C19: a failure of the logger while a WARNING or ERROR Result is reported
\* is not fatal: accept returns the Result it would return if the logger had
\* succeeded, and raises nothing that it would not raise then.
C19_SinkFailureNotFatal ==
    (Evaluated /\ call.op = "accept" /\ call.sink = "raise") =>
        \A a \in {WithSoundSink} :
            /\ acc.kind = a.kind
            /\ acc.result = a.result
            /\ raised = a.exc

-----------------------------------------------------------------------------
(* C20 *)

RECURSIVE Current(_, _, _)
\* the lists of observers that the first n calls of the history can leave
\* attached to event type t: each attach adds an attachment at the end, each
\* detach takes away one attachment of its observer, whichever it is, and
\* the calls made for another event type change nothing
Current(h, n, t) ==
    IF n = 0 THEN {<<>>}
    ELSE LET before == Current(h, n - 1, t)
         IN IF h[n].event_type # t THEN before
            ELSE IF h[n].op = "attach"
            THEN {Append(list, h[n].observer) : list \in before}
            ELSE UNION {{RemoveAt(list, k) :
                            k \in {i \in DOMAIN list : list[i] = h[n].observer}} :
                        list \in before}

\* C20: after any sequence of attach and detach calls, the observers attached
\* to each event type are the attachments made for that type and not detached
\* since, in attach order, whatever was attached or detached for the other
\* types; notify(event) calls update with the event once for each of those
\* of event.event_type, in that order, and calls no other observer.
C20_NotifyCurrentAttachments ==
    /\ \A t \in EventType : _observers[t] \in Current(history, Len(history), t)
    /\ notified # NoEvent =>
          \E list \in Current(history, Len(history), notified.event_type) :
              updates = [k \in DOMAIN list |-> [observer |-> list[k], event |-> notified]]

\* notify for an event type from which an observer was detached and which
\* has another observer left, while the detached observer is still attached
\* to another event type: only the observer left is updated
C20_Witness ==
    /\ notified # NoEvent
    /\ Len(updates) = 1
    /\ updates[1].event = notified
    /\ \E k \in DOMAIN history :
          /\ history[k].op = "detach"
          /\ history[k].event_type = notified.event_type
          /\ history[k].observer # updates[1].observer
          /\ \E t \in EventType \ {notified.event_type} :
                _observers[t] = <<history[k].observer>>


-----------------------------------------------------------------------------
(* The observable property: TestObservable.value, assigned and read *)

\* the values assigned to the property (it holds 0 after construction)
Values == {10, 20}

\* Observable.notify(event), as a value: one update per entry of the list of
\* the event's type, in list order
Deliver(observers, event) ==
    [k \in DOMAIN observers[event.event_type] |->
       [observer |-> observers[event.event_type][k], event |-> event]]

\* observable.notify(instance, event): observable = adapt(instance, Observable);
\* if observable: observable.notify(event=event)
observable_notify(observers, instance, event) ==
    IF adapt(instance, "Observable") # NoneV THEN Deliver(observers, event) ELSE <<>>

\* the getter the property wraps: return self._value
fget(store, instance) == store[instance]

\* the setter the property wraps: self._value = new_value
fset(store, instance, new_value) == [store EXCEPT ![instance] = new_value]

\* the events of an operation, each with the value stored when it is handed on
Handed(events, stored) ==
    [k \in DOMAIN events |-> [event |-> events[k], stored |-> stored]]

\* the updates a sequence of events causes, in order
RECURSIVE DeliverAll(_, _, _)
DeliverAll(observers, instance, events) ==
    IF events = <<>> THEN <<>>
    ELSE observable_notify(observers, instance, Head(events))
         \o DeliverAll(observers, instance, Tail(events))

\* a read of the old value that goes through the property, as instance.value does
M_ReadOld(store, instance) ==
    [value |-> fget(store, instance),
     events |-> <<Event("get", "value", {<<"value", fget(store, instance)>>})>>]

\* __set__: old_value = self.fget(instance), the wrapped getter called directly
ReadOld(store, instance) == [value |-> fget(store, instance), events |-> <<>>]

\* observable.__get__(instance, owner)
Property_get ==
    /\ \E instance \in Owners :
         \E value \in {fget(_value, instance)} :
           \E event \in {Event("get", "value", {<<"value", value>>})} :
             /\ emitted' = Handed(<<event>>, _value[instance])
             /\ updates' = observable_notify(_observers, instance, event)
             /\ notified' = IF adapt(instance, "Observable") # NoneV
                            THEN event ELSE NoEvent
             /\ opRet' = value
             /\ lastOp' = [name |-> "get", instance |-> instance, index |-> 0,
                           arg |-> NoValue, before |-> _value[instance]]
    /\ opRaised' = "none"
    /\ obsRaised' = "none"
    /\ UNCHANGED <<_rules, _validator, engineVars, chainVars, _observers, history,
                   _value, _list>>

\* observable.__set__(instance, new_value)
Property_set ==
    /\ \E instance \in Owners, new_value \in Values :
         \E old \in {ReadOld(_value, instance)} :
           \E store \in {fset(_value, instance, new_value)} :
             \E event \in {Event("update", "value", {<<"old_value", old.value>>,
                                                     <<"new_value", new_value>>})} :
               /\ _value' = store
               /\ emitted' = Handed(old.events, _value[instance])
                             \o Handed(<<event>>, store[instance])
               /\ updates' = DeliverAll(_observers, instance, old.events \o <<event>>)
               /\ notified' = IF adapt(instance, "Observable") # NoneV
                              THEN event ELSE NoEvent
               /\ lastOp' = [name |-> "set", instance |-> instance, index |-> 0,
                             arg |-> new_value, before |-> _value[instance]]
    /\ opRet' = NoValue
    /\ opRaised' = "none"
    /\ obsRaised' = "none"
    /\ UNCHANGED <<_rules, _validator, engineVars, chainVars, _observers, history,
                   _list>>

NextProperty == attach \/ Property_get \/ Property_set

SpecProperty == Init /\ [][NextProperty]_vars

\* the event an operation handed on, when it handed on exactly one
TheEvent == emitted[1].event

\* when the operation is the last thing that happened, the observers of the
\* receiver got exactly the events handed on, once per attachment to the
\* event's type; a receiver that is no Observable notifies nobody
Notified ==
    updates = IF adapt(lastOp.instance, "Observable") # NoneV /\ notified # NoEvent
              THEN DeliverAll(_observers, lastOp.instance,
                              [k \in DOMAIN emitted |-> emitted[k].event])
              ELSE <<>>

\* C21: an assignment of the observable property hands on exactly one event, an
\* UPDATE whose old_value is the value held before and whose new_value is the
\* value assigned, when the new value is already stored, and no GET event for
\* its read of the old value; a read of the property hands on exactly one GET
\* event carrying the value the property holds, which is the value returned
C21_PropertyEvents ==
    /\ lastOp.name = "set" =>
         /\ Len(emitted) = 1
         /\ TheEvent = Event("update", "value", {<<"old_value", lastOp.before>>,
                                                 <<"new_value", lastOp.arg>>})
         /\ emitted[1].stored = lastOp.arg
         /\ _value[lastOp.instance] = lastOp.arg
         /\ \A k \in DOMAIN updates : updates[k].event.event_type # "get"
         /\ Notified
    /\ lastOp.name = "get" =>
         /\ Len(emitted) = 1
         /\ TheEvent = Event("get", "value", {<<"value", _value[lastOp.instance]>>})
         /\ opRet = _value[lastOp.instance]
         /\ _value[lastOp.instance] = lastOp.before
         /\ Notified

\* an assignment of 20 over 10 that an observer of UPDATE and of GET saw
C21_Witness ==
    /\ lastOp.name = "set" /\ lastOp.instance = "obs"
    /\ lastOp.before = 10 /\ lastOp.arg = 20
    /\ _observers["get"] # <<>>
    /\ Len(updates) = 1

\* a read of an assigned value that an observer of GET saw
C21_WitnessRead ==
    /\ lastOp.name = "get" /\ lastOp.instance = "obs"
    /\ opRet = 20
    /\ Len(updates) >= 1


-----------------------------------------------------------------------------
(* ObservableList: a list that notifies its observers of what is done to it *)

\* the longest list
MaxList == 3

\* the items put in the list
Items == {1, 42}

\* the indexes used, Python's: from 0, negative ones counting from the end
Indexes == (0 - MaxList - 1) .. MaxList

\* the position a Python index stands for (from 1), if it stands for one
Position(list, index) == (IF index < 0 THEN index + Len(list) ELSE index) + 1

\* list[index] raises IndexError outside -len(list) .. len(list) - 1
InRange(list, index) == Position(list, index) \in DOMAIN list

\* what a list operation does: the list after it, the events it notifies of,
\* the value it returns and the exception it raises
Done(list, events, value) ==
    [list |-> list, events |-> events, ret |-> value, raises |-> "none"]
Failed(list, type) ==
    [list |-> list, events |-> <<>>, ret |-> NoValue, raises |-> type]

\* ObservableList.append(item)
List_append(list, item) ==
    Done(Append(list, item), <<Event("add", "append", {<<"item", item>>})>>, NoValue)

\* ObservableList.remove(item): list.remove raises ValueError for an absent item
List_remove(list, item) ==
    IF IndexOf(list, item) = 0 THEN Failed(list, "ValueError")
    ELSE Done(ListRemove(list, item),
              <<Event("remove", "remove", {<<"item", item>>})>>, NoValue)

\* ObservableList.__getitem__(index)
List_getitem(list, index) ==
    IF ~InRange(list, index) THEN Failed(list, "IndexError")
    ELSE Done(list,
              <<Event("get", "getitem", {<<"index", index>>,
                                         <<"item", list[Position(list, index)]>>})>>,
              list[Position(list, index)])

\* an item assignment that reads the old value once the new one is stored
M_List_setitem(list, index, value) ==
    IF ~InRange(list, index) THEN Failed(list, "IndexError")
    ELSE Done([list EXCEPT ![Position(list, index)] = value],
              <<Event("update", "setitem", {<<"index", index>>,
                                            <<"old_value", value>>,
                                            <<"new_value", value>>})>>,
              NoValue)

\* ObservableList.__setitem__(index, value)
List_setitem(list, index, value) ==
    IF ~InRange(list, index) THEN Failed(list, "IndexError")
    ELSE Done([list EXCEPT ![Position(list, index)] = value],
              <<Event("update", "setitem", {<<"index", index>>,
                                            <<"old_value", list[Position(list, index)]>>,
                                            <<"new_value", value>>})>>,
              NoValue)

\* ObservableList.__delitem__(index): list.pop(index)
List_delitem(list, index) ==
    IF ~InRange(list, index) THEN Failed(list, "IndexError")
    ELSE Done(RemoveAt(list, Position(list, index)),
              <<Event("delete", "delitem", {<<"index", index>>,
                                            <<"item", list[Position(list, index)]>>})>>,
              NoValue)

\* an operation on the list, from its call to its return or its exception
ListOp(name, index, arg, done) ==
    /\ _list' = done.list
    /\ emitted' = Handed(done.events, done.list)
    /\ updates' = DeliverAll(_observers, "olist", done.events)
    /\ notified' = IF done.events = <<>> THEN NoEvent ELSE done.events[Len(done.events)]
    /\ opRet' = done.ret
    /\ opRaised' = done.raises
    /\ obsRaised' = "none"
    /\ lastOp' = [name |-> name, instance |-> "olist", index |-> index, arg |-> arg,
                  before |-> NoValue]
    /\ UNCHANGED <<_rules, _validator, engineVars, chainVars, _observers, history,
                   _value>>

append ==
    /\ Len(_list) < MaxList
    /\ \E item \in Items : ListOp("append", 0, item, List_append(_list, item))

remove == \E item \in Items : ListOp("remove", 0, item, List_remove(_list, item))

getitem == \E index \in Indexes : ListOp("getitem", index, NoValue,
                                          List_getitem(_list, index))

setitem == \E index \in Indexes, value \in Items :
               ListOp("setitem", index, value, List_setitem(_list, index, value))

delitem == \E index \in Indexes : ListOp("delitem", index, NoValue,
                                          List_delitem(_list, index))

\* the event types in the order the tests attach the observer of a list
SetupOrder == <<"add", "remove", "update", "delete", "get">>

\* observable.attach(event_type, observer), as the tests set a list up: one
\* observer, attached to each event type in turn
List_attach ==
    /\ Len(history) < Len(SetupOrder)
    /\ \E event_type \in {SetupOrder[Len(history) + 1]} :
         /\ _observers' = [_observers EXCEPT ![event_type] = Append(@, "o1")]
         /\ history' = Append(history, [op |-> "attach", event_type |-> event_type,
                                        observer |-> "o1"])
    /\ notified' = NoEvent
    /\ updates' = <<>>
    /\ obsRaised' = "none"
    /\ UNCHANGED <<_rules, _validator, engineVars, chainVars, dataVars>>

NextList == List_attach \/ append \/ remove \/ getitem \/ setitem \/ delitem

SpecList == Init /\ [][NextList]_vars


\* a step that is an operation on the list
ListStep(name) == history' = history /\ lastOp'.name = name

\* the step handed on exactly this event, once the list was what it is after
\* the step, and each observer attached to the event's type got it once
Emits(event) ==
    /\ opRaised' = "none"
    /\ emitted' = <<[event |-> event, stored |-> _list']>>
    /\ updates' = Deliver(_observers, event)

\* the step raised, left the list alone and handed on no event
Fails ==
    /\ opRaised' # "none"
    /\ _list' = _list
    /\ emitted' = <<>>
    /\ updates' = <<>>

\* the item an index of the list stands for, when it stands for one
Indexed(index) == -Len(_list) <= index /\ index < Len(_list)
ItemAt(index) == _list[IF index < 0 THEN Len(_list) + index + 1 ELSE index + 1]

\* C22: every successful append, remove, item assignment, item deletion and
\* item read of an ObservableList hands on exactly one event, of type ADD,
\* REMOVE, UPDATE, DELETE and GET respectively, after the list has been changed
\* and carrying the items concerned; an operation that fails (an absent item,
\* an index out of range) leaves the list unchanged and hands on no event
C22_ListEvents ==
    [][/\ ListStep("append") =>
            /\ _list' = Append(_list, lastOp'.arg)
            /\ Emits(Event("add", "append", {<<"item", lastOp'.arg>>}))
       /\ ListStep("remove") =>
            IF \E k \in DOMAIN _list : _list[k] = lastOp'.arg
            THEN /\ _list' = RemoveAt(_list, Least({k \in DOMAIN _list :
                                                       _list[k] = lastOp'.arg}))
                 /\ Emits(Event("remove", "remove", {<<"item", lastOp'.arg>>}))
            ELSE Fails
       /\ ListStep("getitem") =>
            IF Indexed(lastOp'.index)
            THEN /\ _list' = _list
                 /\ opRet' = ItemAt(lastOp'.index)
                 /\ Emits(Event("get", "getitem",
                                {<<"index", lastOp'.index>>,
                                 <<"item", ItemAt(lastOp'.index)>>}))
            ELSE Fails
       /\ ListStep("setitem") =>
            IF Indexed(lastOp'.index)
            THEN /\ Len(_list') = Len(_list)
                 /\ \A k \in DOMAIN _list :
                      _list'[k] = IF k = Position(_list, lastOp'.index)
                                  THEN lastOp'.arg ELSE _list[k]
                 /\ Emits(Event("update", "setitem",
                                {<<"index", lastOp'.index>>,
                                 <<"old_value", ItemAt(lastOp'.index)>>,
                                 <<"new_value", lastOp'.arg>>}))
            ELSE Fails
       /\ ListStep("delitem") =>
            IF Indexed(lastOp'.index)
            THEN /\ _list' = RemoveAt(_list, Position(_list, lastOp'.index))
                 /\ Emits(Event("delete", "delitem",
                                {<<"index", lastOp'.index>>,
                                 <<"item", ItemAt(lastOp'.index)>>}))
            ELSE Fails
      ]_vars

\* an item assignment through a negative index that replaced 1 by 42 and that
\* the observer of UPDATE saw
C22_Witness ==
    /\ lastOp.name = "setitem" /\ lastOp.index < 0 /\ lastOp.arg = 42
    /\ Len(emitted) = 1
    /\ <<"old_value", 1>> \in emitted[1].event.kwargs
    /\ Len(updates) = 1
    /\ Len(_list) >= 2

\* a remove of an absent item and a deletion out of range, on a list that is
\* not empty
C22_WitnessFailed ==
    /\ _list # <<>>
    /\ lastOp.name \in {"remove", "delitem"}
    /\ opRaised # "none"


-----------------------------------------------------------------------------
(* C23 *)

\* the behaviours of the call, with every check that returns None returning
\* an OK Result instead
AsOk(beh) == [f \in DOMAIN beh |-> IF beh[f] = "None" THEN "ok" ELSE beh[f]]

\* pair i of the call was invoked and returned None
ReturnedNone(P, i) == i \in DOMAIN invoked /\ ~Out(P, i).raises /\ Out(P, i).none

\* C23: a check that returns None is treated like a check returning OK: the
\* call goes as it would go had the check returned an OK Result (same checks
\* invoked, same reports, same outcome and level); in AND mode the next check
\* is invoked, in OR mode accept returns at once a truthy OK Result, and no
\* report is made for it
C23_NoneIsOk ==
    Evaluated =>
      \A P \in {Pairs} :
        /\ \A a \in {accept(TheValidator, call.rules, call.mode, call.args,
                            call.kwself, AsOk(call.beh))} :
             /\ a.kind = acc.kind
             /\ a.exc = acc.exc
             /\ a.invoked = acc.invoked
             /\ a.log = acc.log
             /\ a.result.level = acc.result.level
        /\ \A i \in DOMAIN P :
             ReturnedNone(P, i) =>
               /\ (call.mode = "AND" /\ i < Len(P)) => Len(invoked) > i
               /\ call.mode = "OR" =>
                    /\ acc.kind = "return"
                    /\ acc.result.level = OK
                    /\ bool(acc.result)
                    /\ Len(invoked) = i
               /\ \A k \in DOMAIN log : log[k].result # Res(P, i)
        /\ (\A i \in DOMAIN invoked : ReturnedNone(P, i)) => log = <<>>

\* an OR call that returned at a check returning None, with checks left
C23_Witness ==
    /\ Evaluated /\ call.mode = "OR"
    /\ \E P \in {Pairs} :
         /\ Len(P) >= 2
         /\ Len(invoked) < Len(P)
         /\ ReturnedNone(P, Len(invoked))

\* an AND call that went on after a check returning None
C23_WitnessAnd ==
    /\ Evaluated /\ call.mode = "AND"
    /\ \E P \in {Pairs} : ReturnedNone(P, 1) /\ Len(invoked) >= 2


-----------------------------------------------------------------------------
(* C24 *)

\* the pairs whose check returns a WARNING Result
Warning(P) == {i \in DOMAIN P : ~Out(P, i).raises /\ Res(P, i).level = WARNING}

\* the pairs whose check raises or returns an ERROR Result
Blocking(P) == {i \in DOMAIN P : Out(P, i).raises \/ Res(P, i).level >= ERROR}

\* C24: a WARNING Result does not block in AND mode: the check after one that
\* returned WARNING is invoked, every selected check up to the first that
\* raises or returns ERROR is invoked, an ERROR that comes after a WARNING is
\* the Result returned, and when no selected check returns ERROR or raises the
\* guard invokes the wrapped operation once, on its receiver, whatever the
\* number of WARNING Results
C24_WarningNonBlocking ==
    (Evaluated /\ call.mode = "AND") =>
      \A P \in {Pairs} :
        /\ \A i \in Warning(P) \cap DOMAIN invoked :
             i < Len(P) => i + 1 \in DOMAIN invoked
        /\ Len(invoked) = IF Blocking(P) = {} THEN Len(P) ELSE Least(Blocking(P))
        /\ \A i \in DOMAIN invoked : invoked[i].func = P[i].func
        /\ \A e \in Erroring(P) :
             (e = Least(Blocking(P)) /\ \E w \in Warning(P) : w < e) =>
               /\ acc.kind = "return"
               /\ acc.result = Res(P, e)
        /\ (call.op = "guard" /\ Warning(P) # {} /\ Blocking(P) = {}) =>
             /\ bool(acc.result)
             /\ fnCalls = <<[obj |-> call.obj, args |-> call.args]>>

\* a guarded call in AND mode whose checks returned WARNING and no ERROR, and
\* whose wrapped operation ran
C24_Witness ==
    /\ Evaluated /\ call.mode = "AND" /\ call.op = "guard"
    /\ \E P \in {Pairs} :
         /\ Blocking(P) = {}
         /\ 1 \in Warning(P)
         /\ Len(P) >= 2
    /\ fnCalls # <<>>

\* an AND call that returned the ERROR of a check that came after a WARNING
C24_WitnessLaterError ==
    /\ Evaluated /\ call.mode = "AND"
    /\ \E P \in {Pairs} : 1 \in Warning(P) /\ 2 \in Erroring(P)
    /\ acc.result.level = ERROR


-----------------------------------------------------------------------------
(* C25 *)

\* the set of names of a list of rule names
NamesOf(rules) == {rules.names[i] : i \in DOMAIN rules.names}

RECURSIVE SeqOf(_)
\* one list for each set of names: its names once each, in an order that
\* depends on the set alone
SeqOf(S) ==
    IF S = {} THEN <<>>
    ELSE LET x == CHOOSE y \in S : TRUE IN <<x>> \o SeqOf(S \ {x})

\* the list that stands for every list holding the names of the call's list
SameNames == [none |-> FALSE, names |-> SeqOf(NamesOf(call.rules))]

\* the place of check f in the body of type t
DeclPos(t, f) == CHOOSE k \in DOMAIN ClassBody[t] : ClassBody[t][k].name = f

\* in the body of type t, name a is first registered before name b is
RegisteredBefore(t, a, b) ==
    \E k \in DOMAIN ClassBody[t] : \E j \in DOMAIN ClassBody[t][k].rules :
       /\ ClassBody[t][k].rules[j] = a
       /\ \A k2 \in DOMAIN ClassBody[t] : \A j2 \in DOMAIN ClassBody[t][k2].rules :
            ClassBody[t][k2].rules[j2] = b => (k < k2 \/ (k = k2 /\ j < j2))

\* C25: the pairs accept evaluates follow registry order (rule names in the
\* order of their first registration, checks of a rule in declaration order),
\* and the checks invoked, their order and number, the reports and the outcome
\* are those of the call on the one list that stands for the set of names
\* listed, so that lists holding the same names in another order, or a name
\* more than once, all give the same
C25_RegistryOrder ==
    Evaluated =>
      /\ \A i \in DOMAIN invoked : \A j \in DOMAIN invoked :
           i < j =>
             IF invoked[i].rule = invoked[j].rule
             THEN DeclPos(ClassOf(TheValidator), invoked[i].func)
                    < DeclPos(ClassOf(TheValidator), invoked[j].func)
             ELSE RegisteredBefore(ClassOf(TheValidator), invoked[i].rule,
                                   invoked[j].rule)
      /\ ~call.rules.none =>
           acc = accept(TheValidator, SameNames, call.mode, call.args, call.kwself,
                        call.beh)

\* a call that lists two names in the order opposite to their registration,
\* and whose checks of both names ran
C25_Witness ==
    /\ Evaluated /\ ~call.rules.none
    /\ Len(call.rules.names) = 2
    /\ call.rules.names[1] # call.rules.names[2]
    /\ RegisteredBefore(ClassOf(TheValidator), call.rules.names[2], call.rules.names[1])
    /\ \E i \in DOMAIN invoked : invoked[i].rule = call.rules.names[1]
    /\ \E i \in DOMAIN invoked : invoked[i].rule = call.rules.names[2]

\* a call that lists a registered name twice, and whose check ran
C25_WitnessTwice ==
    /\ Evaluated /\ ~call.rules.none
    /\ Len(call.rules.names) = 2
    /\ call.rules.names[1] = call.rules.names[2]
    /\ invoked # <<>>


-----------------------------------------------------------------------------
(* C26 *)

\* the guarded call that is over had a receiver that is no Validator but
\* adapts to one
ThroughService ==
    /\ Returned /\ call.op = "guard"
    /\ ~isinstance(call.obj, "Validator")
    /\ isinstance(call.obj, "Adapter")
    /\ _validator[call.obj] # NoneV

\* C26: when the receiver of the guard is no Validator but adapts to one, the
\* rules evaluated are those of the type of the adapted validator, every check
\* is invoked on the adapted validator with the arguments of the call and the
\* receiver in the payload, and the wrapped operation is invoked on the
\* receiver, never on the adapted validator
C26_GuardThroughService ==
    ThroughService =>
      /\ acc.kind # "none"
      /\ acc = accept(_validator[call.obj], call.rules, call.mode, call.args,
                      call.obj, call.beh)
      /\ \A i \in DOMAIN invoked :
           /\ <<invoked[i].rule, invoked[i].func>>
                \in Entries(ClassOf(_validator[call.obj]))
           /\ invoked[i].self = _validator[call.obj]
           /\ invoked[i].args = call.args
           /\ invoked[i].kwself = call.obj
      /\ \A k \in DOMAIN fnCalls :
           /\ fnCalls[k].obj = call.obj
           /\ fnCalls[k].obj # _validator[call.obj]
           /\ fnCalls[k].args = call.args
      /\ (acc.kind = "return" /\ bool(acc.result)) => Len(fnCalls) = 1

\* a guarded call on a service whose validator ran two checks and let the
\* wrapped operation run
C26_Witness ==
    /\ ThroughService
    /\ Len(invoked) >= 2
    /\ fnCalls # <<>>


-----------------------------------------------------------------------------
(* C27 *)

\* accept returned a Result in the call that is over
AcceptReturned == Evaluated /\ acc.kind = "return"

\* C27: accept in AND mode never returns a WARNING Result: the Result is the
\* ERROR Result of the last check invoked, or an OK Result with no message and
\* no extra data, whatever the warnings and the extra data of the checks that
\* passed
C27_AndNeverWarning ==
    (AcceptReturned /\ call.mode = "AND") =>
      \A P \in {Pairs} :
        /\ acc.result.level # WARNING
        /\ acc.result.level \in {OK, ERROR}
        /\ acc.result.level = ERROR =>
             /\ invoked # <<>>
             /\ Len(invoked) \in Erroring(P)
             /\ acc.result = Out(P, Len(invoked)).result
        /\ acc.result.level = OK =>
             /\ acc.result.message = NoneV
             /\ acc.result.kwargs = {}
             /\ Erroring(P) = {}

\* an AND call that returned OK though a check returned WARNING and another an
\* OK Result with extra data
C27_Witness ==
    /\ AcceptReturned /\ call.mode = "AND"
    /\ acc.result.level = OK
    /\ \E P \in {Pairs} :
         /\ Warning(P) # {}
         /\ \E i \in DOMAIN P : ~Out(P, i).raises /\ Res(P, i).level = OK
                                 /\ Res(P, i).kwargs # {}

\* an OR call that returned a WARNING Result
C27_WitnessOr ==
    /\ AcceptReturned /\ call.mode = "OR"
    /\ acc.result.level = WARNING
    /\ bool(acc.result)

====
